---- MODULE Spec2Model ----
(***************************************************************************)
(* Model of jpx_downloader.py: two link resolvers that scrape a page for a *)
(* file link, three download functions that save the file under a dated    *)
(* name, and main, which runs the three feeds one after the other.         *)
(*                                                                         *)
(* Strings the code inspects (hrefs, URLs) are sequences of one-character  *)
(* strings; text content is a sequence of words.  A page is the parser's   *)
(* node sequence in document order (the next_element order), each node     *)
(* with its nesting depth.                                                 *)
(***************************************************************************)
EXTENDS Integers, Sequences, FiniteSets, TLC

\* Largest number of nodes of a parsed page.
MaxNodes == 3

----------------------------------------------------------------------------
(* Strings *)

\* Python's None; distinct from every string, '' included.
None == <<"None">>

UpperChars == <<"A","B","C","D","E","F","G","H","I","J","K","L","M","N","O","P","Q","R","S","T","U","V","W","X","Y","Z">>
LowerChars == <<"a","b","c","d","e","f","g","h","i","j","k","l","m","n","o","p","q","r","s","t","u","v","w","x","y","z">>

\* str.lower() on one character.
LowerChar(c) ==
    IF \E k \in 1..26 : UpperChars[k] = c
    THEN LowerChars[CHOOSE k \in 1..26 : UpperChars[k] = c]
    ELSE c

\* str.lower()
Lower(s) == [k \in 1..Len(s) |-> LowerChar(s[k])]

\* sub in s
Contains(s, sub) ==
    \E k \in 0..(Len(s) - Len(sub)) : SubSeq(s, k + 1, k + Len(sub)) = sub

\* s.startswith(pre)
StartsWith(s, pre) ==
    Len(s) >= Len(pre) /\ SubSeq(s, 1, Len(pre)) = pre

\* bool(x) of a string or None
Truthy(x) == x # None /\ x # <<>>

DotCsv == <<".", "c", "s", "v">>
DotXls == <<".", "x", "l", "s">>
DotXlsx == <<".", "x", "l", "s", "x">>
DotPdf == <<".", "p", "d", "f">>
Http == <<"h", "t", "t", "p">>
Slash == <<"/">>

DerivativesPageUrl ==
    <<"h", "t", "t", "p", "s", ":", "/", "/", "w", "w", "w", ".", "j", "p",
      "x", ".", "c", "o", ".", "j", "p", "/", "e", "n", "g", "l", "i", "s",
      "h", "/", "m", "a", "r", "k", "e", "t", "s", "/", "d", "e", "r", "i",
      "v", "a", "t", "i", "v", "e", "s", "/", "s", "e", "t", "t", "l", "e",
      "m", "e", "n", "t", "-", "p", "r", "i", "c", "e", "/", "i", "n", "d",
      "e", "x", ".", "h", "t", "m", "l">>
IrsPageUrl ==
    <<"h", "t", "t", "p", "s", ":", "/", "/", "w", "w", "w", ".", "j", "p",
      "x", ".", "c", "o", ".", "j", "p", "/", "j", "s", "c", "c", "/", "e",
      "n", "/", "i", "n", "t", "e", "r", "e", "s", "t", "_", "r", "a", "t",
      "e", "_", "s", "w", "a", "p", ".", "h", "t", "m", "l">>
base_url == <<"h", "t", "t", "p", "s", ":", "/", "/", "w", "w", "w", ".", "j", "p", "x", ".", "c", "o", ".", "j", "p">>

\* The hrefs the site's pages are built from: slash-relative, bare-relative
\* and absolute; each accepted extension, two of them ".csv" and two in upper
\* case; one with no accepted extension.
HrefCsv == <<"/", "a", ".", "c", "s", "v">>
HrefCsvUpper == <<"b", ".", "C", "S", "V">>
HrefPdf == <<"h", "t", "t", "p", ":", "/", "/", "j", "/", "c", ".", "p", "d", "f">>
HrefXls == <<"e", ".", "X", "L", "S">>
HrefTxt == <<"d", ".", "t", "x", "t">>
Hrefs == {HrefCsv, HrefCsvUpper, HrefPdf, HrefXls, HrefTxt}

----------------------------------------------------------------------------
(* Pages *)

StatisticsMarker == <<"Statistics", "for Interest Rate Swap(Daily)">>
SettlementMarker == <<"Settlement Rates", "for Interest Rate Swap(Daily)">>

\* The text nodes the site's pages are built from: each marker phrase with
\* surrounding white space, and both phrases in one text node.
StatisticsText == <<" ">> \o StatisticsMarker \o <<" ">>
SettlementText == <<" ">> \o SettlementMarker
BothText == StatisticsMarker \o <<" ", "and">> \o SettlementMarker
Texts == {StatisticsText, SettlementText, BothText}

Tag(name, href, depth) ==
    [kind |-> "tag", name |-> name, href |-> href, text |-> <<>>, depth |-> depth]
TextNode(text, depth) ==
    [kind |-> "text", name |-> "", href |-> None, text |-> text, depth |-> depth]

\* The nodes that may stand at a given depth.
NodesAt(d) ==
    {Tag("div", None, d)}
        \cup {Tag("a", h, d) : h \in Hrefs \cup {None}}
        \cup {TextNode(t, d) : t \in Texts}

\* The depths the node after the last node of p may have: a tag may take a
\* child, a text node may not.
NextDepths(p) ==
    IF p = <<>> THEN {0}
    ELSE IF p[Len(p)].kind = "tag" THEN 0..(p[Len(p)].depth + 1)
    ELSE 0..p[Len(p)].depth

\* What requests.get and raise_for_status make of a GET.
Statuses == {"ok", "http_error", "transport_error"}

----------------------------------------------------------------------------
(* Parsed-page queries (BeautifulSoup) *)

\* Index of the last node of the subtree rooted at node i.
RECURSIVE SubtreeEnd(_, _, _)
SubtreeEnd(page, i, j) ==
    IF j < Len(page) /\ page[j + 1].depth > page[i].depth
    THEN SubtreeEnd(page, i, j + 1)
    ELSE j

\* Tag.get_text(): the text nodes below node i, concatenated in document order.
RECURSIVE ConcatText(_, _, _)
ConcatText(page, from, to) ==
    IF from > to THEN <<>>
    ELSE page[from].text \o ConcatText(page, from + 1, to)

get_text(page, i) == ConcatText(page, i + 1, SubtreeEnd(page, i, i))

IsSpace(w) == w = " "

\* str.strip()
RECURSIVE strip(_)
strip(s) ==
    IF s = <<>> THEN s
    ELSE IF IsSpace(s[1]) THEN strip(Tail(s))
    ELSE IF IsSpace(s[Len(s)]) THEN strip(SubSeq(s, 1, Len(s) - 1))
    ELSE s

\* The tags find_all collects as headers.
HeaderNames == {"h1", "h2", "h3", "h4", "h5", "h6", "div", "p"}

\* soup.find_all(names): the indices of the tags with one of the names, in
\* document order.
RECURSIVE find_all(_, _, _)
find_all(page, names, i) ==
    IF i > Len(page) THEN <<>>
    ELSE IF page[i].kind = "tag" /\ page[i].name \in names
         THEN <<i>> \o find_all(page, names, i + 1)
         ELSE find_all(page, names, i + 1)

\* tag.get('href', '')
GetHref(node) == IF node.href = None THEN <<>> ELSE node.href

----------------------------------------------------------------------------
(* get_derivatives_csv_link *)

\* How a try body ends: with an exception raised inside it, or with a value.
Raise == [raised |-> TRUE, value |-> None]
Return(v) == [raised |-> FALSE, value |-> v]

\* The href filter of find_all: href and '.csv' in href.lower()
IsCsvHref(href) == Truthy(href) /\ Contains(Lower(href), DotCsv)

RECURSIVE CsvLinks(_, _)
CsvLinks(page, anchors) ==
    IF anchors = <<>> THEN <<>>
    ELSE IF IsCsvHref(page[Head(anchors)].href)
         THEN <<page[Head(anchors)].href>> \o CsvLinks(page, Tail(anchors))
         ELSE CsvLinks(page, Tail(anchors))

\* Mutant: the "/" between the origin and a bare-relative href is left out.
DerivativesAbsoluteNoSeparator(csv_url) ==
    IF ~StartsWith(csv_url, Http) THEN base_url \o csv_url ELSE csv_url

DerivativesAbsolute(csv_url) ==
    IF ~StartsWith(csv_url, Http)
    THEN IF StartsWith(csv_url, Slash)
         THEN base_url \o csv_url
         ELSE base_url \o Slash \o csv_url
    ELSE csv_url

\* Mutant: raise_for_status is not called, the body of an error page is parsed.
DerivativesTryUnchecked(response) ==
    IF response.status = "transport_error" THEN Raise
    ELSE LET csv_links == CsvLinks(response.page, find_all(response.page, {"a"}, 1))
         IN  IF csv_links = <<>> THEN Return(None)
             ELSE Return(DerivativesAbsolute(csv_links[1]))

\* The try body: the GET, raise_for_status, the parse and the search.
DerivativesTry(response) ==
    IF response.status # "ok" THEN Raise
    ELSE LET csv_links == CsvLinks(response.page, find_all(response.page, {"a"}, 1))
         IN  IF csv_links = <<>> THEN Return(None)
             ELSE Return(DerivativesAbsolute(csv_links[1]))

\* except Exception: return None
get_derivatives_csv_link(response) ==
    LET r == DerivativesTry(response)
    IN  IF r.raised THEN None ELSE r.value

----------------------------------------------------------------------------
(* get_interest_rate_swap_links *)

\* Mutant: the statistics walk stops at ".pdf" anchors too.
IsStatisticsHrefOrPdf(href) ==
    \/ Contains(Lower(href), DotXls)
    \/ Contains(Lower(href), DotCsv)
    \/ Contains(Lower(href), DotPdf)

\* The anchors the two forward walks stop at.
IsStatisticsHref(href) ==
    Contains(Lower(href), DotXls) \/ Contains(Lower(href), DotCsv)
IsSettlementHref(href) ==
    Contains(Lower(href), DotPdf) \/ Contains(Lower(href), DotCsv)

\* The while loop after a statistics header: next_element is advanced to node
\* i; past the last node it is None and the loop ends with no link.
RECURSIVE WalkStatistics(_, _)
WalkStatistics(page, i) ==
    IF i > Len(page) THEN None
    ELSE IF page[i].kind = "tag" /\ page[i].name = "a"
            /\ IsStatisticsHref(GetHref(page[i]))
         THEN page[i].href
         ELSE WalkStatistics(page, i + 1)

RECURSIVE WalkSettlement(_, _)
WalkSettlement(page, i) ==
    IF i > Len(page) THEN None
    ELSE IF page[i].kind = "tag" /\ page[i].name = "a"
            /\ IsSettlementHref(GetHref(page[i]))
         THEN page[i].href
         ELSE WalkSettlement(page, i + 1)

\* The for loop over the headers, carrying the two links found so far.
RECURSIVE ScanHeaders(_, _, _)
ScanHeaders(page, headers, links) ==
    IF headers = <<>> THEN links
    ELSE LET header == Head(headers)
             header_text == strip(get_text(page, header))
             statistics_link ==
                 IF Contains(header_text, StatisticsMarker)
                    /\ ~Truthy(links.statistics_link)
                 THEN WalkStatistics(page, header + 1)
                 ELSE links.statistics_link
             settlement_rates_link ==
                 IF Contains(header_text, SettlementMarker)
                    /\ ~Truthy(links.settlement_rates_link)
                 THEN WalkSettlement(page, header + 1)
                 ELSE links.settlement_rates_link
         IN  ScanHeaders(page, Tail(headers),
                         [statistics_link |-> statistics_link,
                          settlement_rates_link |-> settlement_rates_link])

StatisticsAbsolute(statistics_link) ==
    IF Truthy(statistics_link) /\ ~StartsWith(statistics_link, Http)
    THEN IF StartsWith(statistics_link, Slash)
         THEN base_url \o statistics_link
         ELSE base_url \o Slash \o statistics_link
    ELSE statistics_link

SettlementAbsolute(settlement_rates_link) ==
    IF Truthy(settlement_rates_link) /\ ~StartsWith(settlement_rates_link, Http)
    THEN IF StartsWith(settlement_rates_link, Slash)
         THEN base_url \o settlement_rates_link
         ELSE base_url \o Slash \o settlement_rates_link
    ELSE settlement_rates_link

NoLinks == [statistics_link |-> None, settlement_rates_link |-> None]

\* The try body: the GET, raise_for_status, the parse, the scan, the conversion.
SwapLinksTry(response) ==
    IF response.status # "ok" THEN Raise
    ELSE LET found == ScanHeaders(response.page,
                                  find_all(response.page, HeaderNames, 1), NoLinks)
         IN  Return([statistics_link |-> StatisticsAbsolute(found.statistics_link),
                     settlement_rates_link |->
                         SettlementAbsolute(found.settlement_rates_link)])

\* except Exception: return the dictionary with both links None
get_interest_rate_swap_links(response) ==
    LET r == SwapLinksTry(response)
    IN  IF r.raised THEN NoLinks ELSE r.value

----------------------------------------------------------------------------
(* The download functions *)

\* The default download_dir of each function.
DerivativesDir ==
    <<"j", "p", "x", "_", "d", "a", "t", "a">>
StatisticsDir ==
    <<"S", "t", "a", "t", "i", "s", "t", "i", "c", "s", " ", "f", "o", "r",
      " ", "I", "n", "t", "e", "r", "e", "s", "t", " ", "R", "a", "t", "e",
      " ", "S", "w", "a", "p", "(", "D", "a", "i", "l", "y", ")">>
SettlementDir ==
    <<"S", "e", "t", "t", "l", "e", "m", "e", "n", "t", " ", "R", "a", "t",
      "e", "s", " ", "f", "o", "r", " ", "I", "n", "t", "e", "r", "e", "s",
      "t", " ", "R", "a", "t", "e", " ", "S", "w", "a", "p", "(", "D", "a",
      "i", "l", "y", ")">>

\* The file name prefixes.
DerivativesPrefix ==
    <<"j", "p", "x", "_", "s", "e", "t", "t", "l", "e", "m", "e", "n", "t",
      "_", "p", "r", "i", "c", "e", "s", "_">>
StatisticsPrefix ==
    <<"i", "r", "s", "_", "s", "t", "a", "t", "i", "s", "t", "i", "c", "s",
      "_">>
SettlementPrefix ==
    <<"i", "r", "s", "_", "s", "e", "t", "t", "l", "e", "m", "e", "n", "t",
      "_", "r", "a", "t", "e", "s", "_">>

Csv == <<"c", "s", "v">>
Xls == <<"x", "l", "s">>
Xlsx == <<"x", "l", "s", "x">>
Pdf == <<"p", "d", "f">>
Dot == <<".">>

Digits == <<"1", "2", "3", "4", "5", "6", "7", "8", "9">>

\* datetime.datetime.now().strftime("%Y%m%d") on day d of the month the
\* model's clock runs through.
strftime(d) == <<"2", "0", "2", "5", "0", "6", "0", Digits[d]>>

\* os.path.join(download_dir, filename)
join(download_dir, filename) == download_dir \o Slash \o filename

\* os.makedirs(download_dir, exist_ok=True)
makedirs(world, download_dir) ==
    [world EXCEPT !.dirs = @ \cup {download_dir}]

\* requests.get(url, headers=headers): the request goes out.
get(world, url) ==
    [world EXCEPT !.requests = Append(@, url)]

\* Mutant: the file is opened 'ab', the bytes are appended.
WriteBytesAppend(world, filepath, data) ==
    [world EXCEPT !.fs = [q \in DOMAIN @ \cup {filepath} |->
                            IF q = filepath
                            THEN (IF q \in DOMAIN @ THEN @[q] ELSE <<>>) \o data
                            ELSE @[q]]]

\* A file's bytes become data (open 'wb' truncates, write fills).
WriteBytes(world, filepath, data) ==
    [world EXCEPT !.fs = [q \in DOMAIN @ \cup {filepath} |->
                            IF q = filepath THEN data ELSE @[q]]]

\* An env is what the environment does to one call: the first step that fails
\* (fault: "makedirs_error", "transport_error", "http_error", "open_error",
\* "write_error", or "ok"), the day datetime.now() reads, the response's
\* content, and how many bytes reach the file when the write fails.

\* with open(filepath, 'wb') as f: f.write(response.content)
OpenAndWrite(world, filepath, env) ==
    IF env.fault = "open_error" THEN [raised |-> TRUE, world |-> world]
    ELSE IF env.fault = "write_error"
         THEN [raised |-> TRUE,
               world |-> WriteBytes(world, filepath,
                                    SubSeq(env.content, 1, env.written))]
         ELSE [raised |-> FALSE, world |-> WriteBytes(world, filepath, env.content)]

\* Mutant: the file is opened before the GET.
GetAndSaveOpenFirst(world, url, filepath, env) ==
    IF env.fault = "open_error" THEN [raised |-> TRUE, world |-> world]
    ELSE IF env.fault \in {"transport_error", "http_error"}
         THEN [raised |-> TRUE,
               world |-> get(WriteBytes(world, filepath, <<>>), url)]
         ELSE OpenAndWrite(get(world, url), filepath, env)

\* The GET and raise_for_status, then the write.
GetAndSave(world, url, filepath, env) ==
    IF env.fault \in {"transport_error", "http_error"}
    THEN [raised |-> TRUE, world |-> get(world, url)]
    ELSE OpenAndWrite(get(world, url), filepath, env)

DerivativesDownloadTry(csv_url, download_dir, world, env) ==
    IF env.fault = "makedirs_error" THEN [raised |-> TRUE, world |-> world]
    ELSE LET today == strftime(env.now)
             filename == DerivativesPrefix \o today \o Dot \o Csv
             filepath == join(download_dir, filename)
         IN  GetAndSave(makedirs(world, download_dir), csv_url, filepath, env)

download_derivatives_csv(csv_url, download_dir, world, env) ==
    IF ~Truthy(csv_url) THEN [result |-> FALSE, world |-> world]
    ELSE LET r == DerivativesDownloadTry(csv_url, download_dir, world, env)
         IN  [result |-> ~r.raised, world |-> r.world]

\* Mutant: ".xlsx" is not told from ".xls".
StatisticsExtensionNoXlsx(file_url) ==
    IF Contains(Lower(file_url), DotXls) THEN Xls ELSE Csv

StatisticsExtension(file_url) ==
    IF Contains(Lower(file_url), DotXls)
    THEN IF Contains(Lower(file_url), DotXlsx) THEN Xlsx ELSE Xls
    ELSE Csv

StatisticsDownloadTry(file_url, download_dir, world, env) ==
    IF env.fault = "makedirs_error" THEN [raised |-> TRUE, world |-> world]
    ELSE LET today == strftime(env.now)
             file_extension == StatisticsExtension(file_url)
             filename == StatisticsPrefix \o today \o Dot \o file_extension
             filepath == join(download_dir, filename)
         IN  GetAndSave(makedirs(world, download_dir), file_url, filepath, env)

\* Mutant: no test of the URL before the try.
download_irs_statistics_unguarded(file_url, download_dir, world, env) ==
    LET r == StatisticsDownloadTry(file_url, download_dir, world, env)
    IN  [result |-> ~r.raised, world |-> r.world]

download_irs_statistics(file_url, download_dir, world, env) ==
    IF ~Truthy(file_url) THEN [result |-> FALSE, world |-> world]
    ELSE LET r == StatisticsDownloadTry(file_url, download_dir, world, env)
         IN  [result |-> ~r.raised, world |-> r.world]

SettlementExtension(file_url) ==
    IF Contains(Lower(file_url), DotPdf) THEN Pdf ELSE Csv

SettlementDownloadTry(file_url, download_dir, world, env) ==
    IF env.fault = "makedirs_error" THEN [raised |-> TRUE, world |-> world]
    ELSE LET today == strftime(env.now)
             file_extension == SettlementExtension(file_url)
             filename == SettlementPrefix \o today \o Dot \o file_extension
             filepath == join(download_dir, filename)
         IN  GetAndSave(makedirs(world, download_dir), file_url, filepath, env)

download_irs_settlement_rates(file_url, download_dir, world, env) ==
    IF ~Truthy(file_url) THEN [result |-> FALSE, world |-> world]
    ELSE LET r == SettlementDownloadTry(file_url, download_dir, world, env)
         IN  [result |-> ~r.raised, world |-> r.world]

----------------------------------------------------------------------------
(* State *)

VARIABLES
    site,                 \* the page the site serves, as the parser will see it
    called,               \* the resolver that has been called, "none" before
    response,             \* the response to the resolver's GET
    derivatives_csv_url,  \* what get_derivatives_csv_link returned
    irs_links,            \* what get_interest_rate_swap_links returned
    fs,                   \* the files on disk: path -> bytes
    dirs,                 \* the directories on disk
    requests,             \* the URLs requested, in order (of a run, of a call)
    clock,                \* the day datetime.now() reads
    pc,                   \* where main is
    run,                  \* the number of the run of main
    steps,                \* the steps of this run: <<feed, "resolve" or "fetch">>
    log,                  \* the download calls of this run, with their results
    prev,                 \* the log of the previous run and the files it left
    call,                 \* the last call of a download function, and the
                          \* files and directories before it
    calls                 \* the number of calls of download functions so far

resolverVars == <<site, called, response>>
linkVars == <<derivatives_csv_url, irs_links>>
worldVars == <<fs, dirs, requests>>
mainVars == <<pc, run, steps, log, prev>>
fetchVars == <<call, calls>>
vars == <<resolverVars, linkVars, worldVars, clock, mainVars, fetchVars>>

NoResponse == [status |-> "none", page |-> <<>>]
NoFiles == [q \in {} |-> <<>>]
NoCall == [fn |-> "none", file_url |-> None, env |-> <<>>, result |-> FALSE,
           fs |-> NoFiles, dirs |-> {}]
NoPrev == [log |-> <<>>, files |-> {}]

World == [fs |-> fs, dirs |-> dirs, requests |-> requests]

\* Last day of the model's clock.
MaxDay == 2

\* The response bodies a file GET may bring.
Payloads == {<<"a", "b">>, <<"c">>}

\* The faults under which no content is written.
Unwritten == {"makedirs_error", "transport_error", "http_error"}

\* What the environment may do to a download call made on day now.
Envs(now) ==
    {[fault |-> f, now |-> now, content |-> <<>>, written |-> 0] :
        f \in Unwritten}
    \cup {[fault |-> "open_error", now |-> now, content |-> <<>>, written |-> 0]}
    \cup {[fault |-> "ok", now |-> now, content |-> c, written |-> 0] :
        c \in Payloads}
    \cup UNION {{[fault |-> "write_error", now |-> now, content |-> c, written |-> k] :
                    k \in 0..(Len(c) - 1)} : c \in Payloads}

----------------------------------------------------------------------------
(* The resolvers against every page the site may serve *)

InitResolve ==
    /\ site = <<>>
    /\ called = "none"
    /\ response = NoResponse
    /\ derivatives_csv_url = None
    /\ irs_links = NoLinks
    /\ fs = NoFiles
    /\ dirs = {}
    /\ requests = <<>>
    /\ clock = 1
    /\ pc = "none"
    /\ run = 0
    /\ steps = <<>>
    /\ log = <<>>
    /\ prev = NoPrev
    /\ call = NoCall
    /\ calls = 0

\* The site grows by one node.
SiteEdit ==
    /\ called = "none"
    /\ Len(site) < MaxNodes
    /\ \E d \in NextDepths(site) : \E nd \in NodesAt(d) : site' = Append(site, nd)
    /\ UNCHANGED <<called, response, linkVars, worldVars, clock, mainVars, fetchVars>>

CallDerivativesResolver ==
    /\ called = "none"
    /\ \E st \in Statuses :
         /\ response' = [status |-> st, page |-> site]
         /\ derivatives_csv_url' = get_derivatives_csv_link(response')
    /\ called' = "derivatives"
    /\ UNCHANGED <<site, irs_links, worldVars, clock, mainVars, fetchVars>>

CallSwapResolver ==
    /\ called = "none"
    /\ \E st \in Statuses :
         /\ response' = [status |-> st, page |-> site]
         /\ irs_links' = get_interest_rate_swap_links(response')
    /\ called' = "irs"
    /\ UNCHANGED <<site, derivatives_csv_url, worldVars, clock, mainVars, fetchVars>>

NextResolve == SiteEdit \/ CallDerivativesResolver \/ CallSwapResolver

SpecResolve == InitResolve /\ [][NextResolve]_vars

----------------------------------------------------------------------------
(* The download functions called with every URL, on every disk they leave *)

\* Largest number of calls in a row.
MaxCalls == 2

HrefXlsx == <<"/", "g", ".", "x", "l", "s", "x">>

\* The URLs each function is called with: None, '', and resolved links of
\* the extensions the function tells apart.
DerivativesUrls == {None, <<>>, DerivativesAbsolute(HrefCsv)}
StatisticsUrls ==
    {None, <<>>} \cup {StatisticsAbsolute(h) : h \in {HrefCsv, HrefXls, HrefXlsx}}
SettlementUrls ==
    {None, <<>>} \cup {SettlementAbsolute(h) : h \in {HrefCsvUpper, HrefPdf}}

\* The calls are made on one day, any day of the clock.
InitFetch ==
    /\ site = <<>>
    /\ called = "none"
    /\ response = NoResponse
    /\ derivatives_csv_url = None
    /\ irs_links = NoLinks
    /\ fs = NoFiles
    /\ dirs = {}
    /\ requests = <<>>
    /\ clock \in 1..MaxDay
    /\ pc = "none"
    /\ run = 0
    /\ steps = <<>>
    /\ log = <<>>
    /\ prev = NoPrev
    /\ call = NoCall
    /\ calls = 0

\* The call's effect; requests holds the requests of this call alone.
Called(fn, file_url, env, r) ==
    /\ fs' = r.world.fs
    /\ dirs' = r.world.dirs
    /\ requests' = r.world.requests
    /\ call' = [fn |-> fn, file_url |-> file_url, env |-> env, result |-> r.result,
                fs |-> fs, dirs |-> dirs]
    /\ calls' = calls + 1
    /\ UNCHANGED <<resolverVars, linkVars, clock, mainVars>>

Fresh == [World EXCEPT !.requests = <<>>]

CallDownloadDerivatives ==
    /\ calls < MaxCalls
    /\ \E file_url \in DerivativesUrls : \E env \in Envs(clock) :
         Called("download_derivatives_csv", file_url, env,
                download_derivatives_csv(file_url, DerivativesDir, Fresh, env))

CallDownloadStatistics ==
    /\ calls < MaxCalls
    /\ \E file_url \in StatisticsUrls : \E env \in Envs(clock) :
         Called("download_irs_statistics", file_url, env,
                download_irs_statistics(file_url, StatisticsDir, Fresh, env))

CallDownloadSettlement ==
    /\ calls < MaxCalls
    /\ \E file_url \in SettlementUrls : \E env \in Envs(clock) :
         Called("download_irs_settlement_rates", file_url, env,
                download_irs_settlement_rates(file_url, SettlementDir, Fresh, env))

NextFetch ==
    CallDownloadDerivatives \/ CallDownloadStatistics \/ CallDownloadSettlement

SpecFetch == InitFetch /\ [][NextFetch]_vars

----------------------------------------------------------------------------
(* main, run after run *)

\* Largest number of runs of main.
MaxRuns == 2

\* The pages the two sites serve to main: no link at all; both marker phrases
\* before one ".csv" anchor; both before a ".xls" and a ".pdf" anchor.
PageNoLinks == <<Tag("div", None, 0), TextNode(BothText, 1)>>
PageCsv == <<Tag("div", None, 0), TextNode(BothText, 1), Tag("a", HrefCsv, 1)>>
PageXlsPdf ==
    <<Tag("div", None, 0), TextNode(BothText, 1), Tag("a", HrefXls, 1),
      Tag("a", HrefPdf, 0)>>
MainPages == {PageNoLinks, PageCsv, PageXlsPdf}

\* The bytes the site serves for a file during a run: new data each run.
SiteData(r) == <<"r", Digits[r]>>

\* What the environment may do to a download call of main: the GET fails or
\* brings the run's data.
MainEnvs(now, r) ==
    {[fault |-> f, now |-> now, content |-> <<>>, written |-> 0] :
        f \in {"transport_error", "http_error"}}
    \cup {[fault |-> "ok", now |-> now, content |-> SiteData(r), written |-> 0]}

\* Mutant: both resolvers are called before the first download.
FollowsResolveFirst(at) ==
    CASE at = "get_derivatives_link" -> "get_swap_links"
      [] at = "get_swap_links" -> "download_derivatives"
      [] at = "download_derivatives" -> "download_statistics"
      [] at = "download_statistics" -> "download_settlement"
      [] at = "download_settlement" -> "end"

\* The order of main's statements.
Follows(at) ==
    CASE at = "get_derivatives_link" -> "download_derivatives"
      [] at = "download_derivatives" -> "get_swap_links"
      [] at = "get_swap_links" -> "download_statistics"
      [] at = "download_statistics" -> "download_settlement"
      [] at = "download_settlement" -> "end"

InitMain ==
    /\ site = <<>>
    /\ called = "none"
    /\ response = NoResponse
    /\ derivatives_csv_url = None
    /\ irs_links = NoLinks
    /\ fs = NoFiles
    /\ dirs = {}
    /\ requests = <<>>
    /\ clock \in 1..MaxDay
    /\ pc = "get_derivatives_link"
    /\ run = 1
    /\ steps = <<>>
    /\ log = <<>>
    /\ prev = NoPrev
    /\ call = NoCall
    /\ calls = 0

\* derivatives_csv_url = get_derivatives_csv_link()
MainGetDerivativesLink ==
    /\ pc = "get_derivatives_link"
    /\ \E st \in Statuses : \E page \in MainPages :
         derivatives_csv_url' = get_derivatives_csv_link([status |-> st, page |-> page])
    /\ requests' = Append(requests, DerivativesPageUrl)
    /\ steps' = Append(steps, <<"derivatives", "resolve">>)
    /\ pc' = Follows(pc)
    /\ UNCHANGED <<resolverVars, irs_links, fs, dirs, clock, run, log, prev, fetchVars>>

\* A download call of main: its effect on the disk, its entry in the log.
Downloaded(feed, file_url, env, r) ==
    /\ fs' = r.world.fs
    /\ dirs' = r.world.dirs
    /\ requests' = r.world.requests
    /\ steps' = Append(steps, <<feed, "fetch">>)
    /\ log' = Append(log, [feed |-> feed, file_url |-> file_url, today |-> env.now,
                           result |-> r.result])

\* The else branch: only an error is logged.
Skipped == UNCHANGED <<worldVars, steps, log>>

\* if derivatives_csv_url: download_derivatives_csv(derivatives_csv_url)
MainDownloadDerivatives ==
    /\ pc = "download_derivatives"
    /\ IF Truthy(derivatives_csv_url)
       THEN \E env \in MainEnvs(clock, run) :
                Downloaded("derivatives", derivatives_csv_url, env,
                           download_derivatives_csv(derivatives_csv_url,
                                                    DerivativesDir, World, env))
       ELSE Skipped
    /\ pc' = Follows(pc)
    /\ UNCHANGED <<resolverVars, linkVars, clock, run, prev, fetchVars>>

\* irs_links = get_interest_rate_swap_links()
MainGetSwapLinks ==
    /\ pc = "get_swap_links"
    /\ \E st \in Statuses : \E page \in MainPages :
         irs_links' = get_interest_rate_swap_links([status |-> st, page |-> page])
    /\ requests' = Append(requests, IrsPageUrl)
    /\ steps' = steps \o <<(<<"statistics", "resolve">>), (<<"settlement", "resolve">>)>>
    /\ pc' = Follows(pc)
    /\ UNCHANGED <<resolverVars, derivatives_csv_url, fs, dirs, clock, run, log, prev,
                   fetchVars>>

\* Mutant: main returns when the statistics download fails.
MainDownloadStatisticsAbort ==
    /\ pc = "download_statistics"
    /\ IF Truthy(irs_links.statistics_link)
       THEN \E env \in MainEnvs(clock, run) :
                LET r == download_irs_statistics(irs_links.statistics_link,
                                                 StatisticsDir, World, env)
                IN  /\ Downloaded("statistics", irs_links.statistics_link, env, r)
                    /\ pc' = IF r.result THEN Follows(pc) ELSE "end"
       ELSE Skipped /\ pc' = Follows(pc)
    /\ UNCHANGED <<resolverVars, linkVars, clock, run, prev, fetchVars>>

\* if irs_links['statistics_link']: download_irs_statistics(...)
MainDownloadStatistics ==
    /\ pc = "download_statistics"
    /\ IF Truthy(irs_links.statistics_link)
       THEN \E env \in MainEnvs(clock, run) :
                Downloaded("statistics", irs_links.statistics_link, env,
                           download_irs_statistics(irs_links.statistics_link,
                                                   StatisticsDir, World, env))
       ELSE Skipped
    /\ pc' = Follows(pc)
    /\ UNCHANGED <<resolverVars, linkVars, clock, run, prev, fetchVars>>

\* if irs_links['settlement_rates_link']: download_irs_settlement_rates(...)
MainDownloadSettlement ==
    /\ pc = "download_settlement"
    /\ IF Truthy(irs_links.settlement_rates_link)
       THEN \E env \in MainEnvs(clock, run) :
                Downloaded("settlement", irs_links.settlement_rates_link, env,
                           download_irs_settlement_rates(irs_links.settlement_rates_link,
                                                         SettlementDir, World, env))
       ELSE Skipped
    /\ pc' = Follows(pc)
    /\ UNCHANGED <<resolverVars, linkVars, clock, run, prev, fetchVars>>

\* The process is started again, the same day or a later one: nothing but the
\* disk is carried over.
Rerun ==
    /\ pc = "end"
    /\ run < MaxRuns
    /\ run' = run + 1
    /\ clock' \in clock..MaxDay
    /\ pc' = "get_derivatives_link"
    /\ prev' = [log |-> log, files |-> DOMAIN fs]
    /\ derivatives_csv_url' = None
    /\ irs_links' = NoLinks
    /\ requests' = <<>>
    /\ steps' = <<>>
    /\ log' = <<>>
    /\ UNCHANGED <<resolverVars, fs, dirs, fetchVars>>

MainStep ==
    \/ MainGetDerivativesLink
    \/ MainDownloadDerivatives
    \/ MainGetSwapLinks
    \/ MainDownloadStatistics
    \/ MainDownloadSettlement

\* One run of main.
SpecMain == InitMain /\ [][MainStep]_vars

\* main is sequential code: as long as a statement is left, one is executed.
FairSpecMain == SpecMain /\ WF_vars(MainStep)

\* Run after run.
NextRuns == MainStep \/ Rerun

SpecRuns == InitMain /\ [][NextRuns]_vars

----------------------------------------------------------------------------
(* Properties of the resolvers *)

IsAnchor(node) == node.kind = "tag" /\ node.name = "a"

\* The least element of a non-empty set of indices.
Least(S) == CHOOSE i \in S : \A j \in S : i <= j

\* The absolute URL the specification gives for an href.
AbsoluteOf(href) ==
    CASE StartsWith(href, Http) -> href
      [] ~StartsWith(href, Http) /\ href # <<>> /\ href[1] = "/" -> base_url \o href
      [] OTHER -> base_url \o <<"/">> \o href

HasExtension(href, ext) ==
    href # None /\ \E k \in 1..(Len(href) - Len(ext) + 1) :
        Lower(SubSeq(href, k, k + Len(ext) - 1)) = ext

\* The anchors of a page after node i whose href has one of the extensions.
AnchorsAfter(page, i, exts) ==
    {k \in (i + 1)..Len(page) :
        IsAnchor(page[k]) /\ \E ext \in exts : HasExtension(page[k].href, ext)}

\* The link the first anchor after node i with one of the extensions gives.
LinkAfter(page, i, exts) ==
    IF AnchorsAfter(page, i, exts) = {} THEN None
    ELSE AbsoluteOf(page[Least(AnchorsAfter(page, i, exts))].href)

\* The text nodes of a page that hold a marker phrase.
MarkerTexts(page, marker) ==
    {k \in 1..Len(page) : page[k].kind = "text" /\ Contains(page[k].text, marker)}

\* The header elements of a page whose text holds a marker phrase.
MarkerHeaders(page, marker) ==
    {k \in 1..Len(page) :
        /\ page[k].kind = "tag"
        /\ page[k].name \in HeaderNames
        /\ Contains(strip(get_text(page, k)), marker)}

Resolved(name) == called = name /\ response.status = "ok"

\* The link of a marker phrase that stands inside a header element is that of
\* the nearest matching anchor after the phrase in document order; there is
\* none when every matching anchor precedes the phrase.
C1_ForwardOfMarker(marker, exts, link) ==
    LET texts == MarkerTexts(response.page, marker)
    IN  (texts # {} /\ MarkerHeaders(response.page, marker) # {})
            => link = LinkAfter(response.page, Least(texts), exts)

\* C1: resolution is forward-only for both marker phrases, on every page
\* shape: an anchor that precedes the phrase is never returned, the nearest
\* matching anchor after the phrase is.
C1_ForwardOnly ==
    Resolved("irs") =>
        /\ C1_ForwardOfMarker(StatisticsMarker, {DotXls, DotCsv},
                              irs_links.statistics_link)
        /\ C1_ForwardOfMarker(SettlementMarker, {DotPdf, DotCsv},
                              irs_links.settlement_rates_link)

\* The link the walk from the first header element holding the marker gives.
LinkOfMarker(marker, exts) ==
    LET headers == MarkerHeaders(response.page, marker)
    IN  IF headers = {} THEN None
        ELSE LinkAfter(response.page, Least(headers), exts)

C4_NotFoundNotRaised ==
    /\ (called = "derivatives"
        /\ (response.status # "ok" \/ AnchorsAfter(response.page, 0, {DotCsv}) = {}))
            => derivatives_csv_url = None
    /\ called = "irs" =>
         /\ DOMAIN irs_links = {"statistics_link", "settlement_rates_link"}
         /\ \/ /\ response.status = "ok"
               /\ AnchorsAfter(response.page, 0, {DotPdf, DotCsv, DotXls}) # {}
            \/ irs_links = NoLinks

\* A non-2xx response whose body would have resolved a link.
C4_Witness ==
    /\ called = "irs"
    /\ response.status = "http_error"
    /\ LinkOfMarker(StatisticsMarker, {DotXls, DotCsv}) # None
    /\ irs_links = NoLinks

----------------------------------------------------------------------------
(* Properties of the download functions *)

DownloadFunctions ==
    {"download_derivatives_csv", "download_irs_statistics",
     "download_irs_settlement_rates"}

\* The directory and the file name prefix of each feed.
DirOf(fn) ==
    CASE fn = "download_derivatives_csv" -> DerivativesDir
      [] fn = "download_irs_statistics" -> StatisticsDir
      [] fn = "download_irs_settlement_rates" -> SettlementDir

PrefixOf(fn) ==
    CASE fn = "download_derivatives_csv" -> DerivativesPrefix
      [] fn = "download_irs_statistics" -> StatisticsPrefix
      [] fn = "download_irs_settlement_rates" -> SettlementPrefix

\* {directory}/{prefix}_{YYYYMMDD}.{ext}
PathOf(fn, day, ext) ==
    DirOf(fn) \o <<"/">> \o PrefixOf(fn) \o strftime(day) \o <<".">> \o ext

\* The disk after bytes were written to one path of it.
Written(files, path, bytes) ==
    /\ DOMAIN fs = DOMAIN files \cup {path}
    /\ fs[path] = bytes
    /\ \A q \in DOMAIN files : q # path => fs[q] = files[q]

\* C5: a download function called with None or '' returns failure and does
\* no I/O: no request, no directory created, no file written.
C5_AbsentUrlNoIO ==
    (call.fn \in DownloadFunctions /\ call.file_url \in {None, <<>>}) =>
        /\ call.result = FALSE
        /\ requests = <<>>
        /\ dirs = call.dirs
        /\ fs = call.fs

\* '' given on a day when the GET and the write would have succeeded.
C5_Witness ==
    /\ call.fn = "download_irs_settlement_rates"
    /\ call.file_url = <<>>
    /\ call.env.fault = "ok"
    /\ call.result = FALSE

\* The extensions C6 as stated allows: csv for derivatives; pdf or csv for
\* settlement rates, by whether the URL contains ".pdf"; xls or xlsx for
\* statistics.
ExtensionsStated(fn, file_url) ==
    CASE fn = "download_derivatives_csv" -> {Csv}
      [] fn = "download_irs_settlement_rates" ->
            IF HasExtension(file_url, DotPdf) THEN {Pdf} ELSE {Csv}
      [] fn = "download_irs_statistics" -> {Xls, Xlsx}

\* The extension C6 as amended gives.
ExtensionAmended(fn, file_url) ==
    CASE fn = "download_derivatives_csv" -> Csv
      [] fn = "download_irs_settlement_rates" ->
            IF HasExtension(file_url, DotPdf) THEN Pdf ELSE Csv
      [] fn = "download_irs_statistics" ->
            IF HasExtension(file_url, DotXlsx) THEN Xlsx
            ELSE IF HasExtension(file_url, DotXls) THEN Xls
            ELSE Csv

\* C6 as stated: a successful download writes exactly the fetched bytes to
\* {directory}/{prefix}_{today}.{ext} with ext csv for derivatives, pdf or csv
\* for settlement rates, xls or xlsx for statistics.
C6_TwoCandidateExtensions ==
    (call.fn \in DownloadFunctions /\ call.result) =>
        \E ext \in ExtensionsStated(call.fn, call.file_url) :
            Written(call.fs, PathOf(call.fn, call.env.now, ext), call.env.content)

\* C6 as amended: the extension for statistics is xlsx if the URL contains
\* ".xlsx", xls if it contains ".xls" only, and csv otherwise (all tests
\* case-insensitive); the rest as stated.
C6_DatedFileName ==
    (call.fn \in DownloadFunctions /\ call.result) =>
        Written(call.fs,
                PathOf(call.fn, call.env.now,
                       ExtensionAmended(call.fn, call.file_url)),
                call.env.content)

\* A statistics link to a ".csv" file, saved as csv.
C6_Witness ==
    /\ call.fn = "download_irs_statistics"
    /\ call.result
    /\ call.file_url = base_url \o HrefCsv
    /\ PathOf(call.fn, call.env.now, Csv) \in DOMAIN fs
    /\ fs[PathOf(call.fn, call.env.now, Csv)] = call.env.content

\* C10: when the file GET fails, the function returns failure and every file
\* is as it was before the call; only the target directory may be new.
C10_FailedGetKeepsFile ==
    (/\ call.fn \in DownloadFunctions
     /\ Truthy(call.file_url)
     /\ call.env.fault \in {"transport_error", "http_error"}) =>
        /\ call.result = FALSE
        /\ fs = call.fs
        /\ call.dirs \subseteq dirs
        /\ dirs \subseteq call.dirs \cup {DirOf(call.fn)}

\* A non-2xx status for a file that an earlier call of the day had saved.
C10_Witness ==
    /\ call.fn = "download_derivatives_csv"
    /\ call.env.fault = "http_error"
    /\ PathOf(call.fn, call.env.now, Csv) \in DOMAIN call.fs
    /\ fs[PathOf(call.fn, call.env.now, Csv)] = <<"a", "b">>
    /\ call.result = FALSE

----------------------------------------------------------------------------
(* Properties of main *)

FunctionOf(feed) ==
    CASE feed = "derivatives" -> "download_derivatives_csv"
      [] feed = "statistics" -> "download_irs_statistics"
      [] feed = "settlement" -> "download_irs_settlement_rates"

Feeds == {"derivatives", "statistics", "settlement"}

\* A run whose three downloads all succeeded, on one day.
Succeeded(l, day) ==
    /\ {l[k].feed : k \in DOMAIN l} = Feeds
    /\ \A k \in DOMAIN l : l[k].result /\ l[k].today = day

\* The extension of the file a run saved for a feed.
SavedExtension(l, feed) ==
    LET k == CHOOSE k \in DOMAIN l : l[k].feed = feed
    IN  ExtensionAmended(FunctionOf(feed), l[k].file_url)

\* The files of a feed for a day.
FilesOf(feed, day) ==
    {q \in DOMAIN fs :
        StartsWith(q, DirOf(FunctionOf(feed)) \o <<"/">>
                        \o PrefixOf(FunctionOf(feed)) \o strftime(day))}

TwoSuccessfulRuns ==
    pc = "end" /\ Succeeded(prev.log, clock) /\ Succeeded(log, clock)

\* C7 as stated: after two successful runs with the same date each feed's
\* directory holds exactly one file for that date, with the bytes of the
\* second run, whatever URLs the runs resolved.
C7_OneFilePerDay ==
    TwoSuccessfulRuns =>
        \A feed \in Feeds :
            /\ Cardinality(FilesOf(feed, clock)) = 1
            /\ \A q \in FilesOf(feed, clock) : fs[q] = SiteData(run)

\* C7 as amended: after two successive successful runs with the same date,
\* the file the second run saved for a feed holds the second run's bytes; if
\* the two URLs of the feed select the same extension the second run added no
\* file for the feed (it overwrote the first run's), and if they select
\* different extensions both files are there.
C7_OverwriteOnSameExtension ==
    TwoSuccessfulRuns =>
        \A feed \in Feeds :
            LET fn == FunctionOf(feed)
                first == PathOf(fn, clock, SavedExtension(prev.log, feed))
                second == PathOf(fn, clock, SavedExtension(log, feed))
            IN  /\ second \in DOMAIN fs
                /\ fs[second] = SiteData(run)
                /\ first = second => FilesOf(feed, clock) \subseteq prev.files
                /\ first # second => {first, second} \subseteq FilesOf(feed, clock)

\* Two successful runs on one day whose statistics links were both ".xls".
C7_Witness ==
    /\ TwoSuccessfulRuns
    /\ run = 2
    /\ SavedExtension(prev.log, "statistics") = Xls
    /\ SavedExtension(log, "statistics") = Xls
    /\ FilesOf("statistics", clock) = {PathOf("download_irs_statistics", clock, Xls)}
    /\ fs[PathOf("download_irs_statistics", clock, Xls)] = SiteData(2)

\* How often x occurs in a sequence.
Count(seq, x) == Cardinality({k \in DOMAIN seq : seq[k] = x})

RunComplete ==
    /\ Count(requests, DerivativesPageUrl) = 1
    /\ Count(requests, IrsPageUrl) = 1
    /\ \A feed \in Feeds : Count(steps, <<feed, "resolve">>) = 1
    /\ Count(steps, <<"derivatives", "fetch">>)
           = IF Truthy(derivatives_csv_url) THEN 1 ELSE 0
    /\ Count(steps, <<"statistics", "fetch">>)
           = IF Truthy(irs_links.statistics_link) THEN 1 ELSE 0
    /\ Count(steps, <<"settlement", "fetch">>)
           = IF Truthy(irs_links.settlement_rates_link) THEN 1 ELSE 0
    /\ Len(requests) = 2 + Len(log)
    /\ \A k \in DOMAIN log : Count(requests, log[k].file_url) >= 1

C9_FeedAfterFeed ==
    \A i, j, k \in DOMAIN steps :
        (i < j /\ j < k /\ steps[i][1] = steps[k][1]) => steps[j][1] = steps[i][1]

\* The place of each step in a run.
Rank(step) ==
    CASE step = <<"derivatives", "resolve">> -> 1
      [] step = <<"derivatives", "fetch">> -> 2
      [] step = <<"statistics", "resolve">> -> 3
      [] step = <<"settlement", "resolve">> -> 4
      [] step = <<"statistics", "fetch">> -> 5
      [] step = <<"settlement", "fetch">> -> 6

\* C9 as amended: the derivatives feed is resolved and fetched before any
\* step of the swap feeds; the two swap links are resolved together, before
\* either swap download; the statistics download ends before the settlement
\* rates download begins.
C9_SequentialSteps ==
    \A i, j \in DOMAIN steps : i < j => Rank(steps[i]) < Rank(steps[j])

\* A run that resolved and fetched all three feeds.
C9_Witness ==
    /\ pc = "end"
    /\ Len(steps) = 6

====
